---- MODULE Spec2Model ----
(***************************************************************************)
(* Subnet address-space accounting of the gomaasapi test server            *)
(* (subnetUnreservedIPRanges, subnetReservedIPRanges, subnetStatistics)    *)
(* and the version dispatch of the device decoder                          *)
(* (getDeviceDeserializationFunc), and the subnet registry of the test      *)
(* server (NewSubnet, UpdateSubnet, DELETE).                               *)
(*                                                                         *)
(* An IP is represented by the value of IP.UInt64().  Go's uint/uint64     *)
(* arithmetic wraps modulo 2^WordBits; the word is scaled down from 64     *)
(* bits so that the wrapped values stay inside TLC's integers.             *)
(***************************************************************************)
EXTENDS Integers, Sequences, FiniteSets, TLC

VARIABLES subnet, includeRanges, op, outcome, ranges, stats,
          deviceDeserializationFuncs, controllerVersion, dispatched, readFunc,
          subnets, nextSubnet, subnetNameToID, issued, deleted

accountVars == <<subnet, includeRanges, op, outcome, ranges, stats>>
dispatchVars == <<deviceDeserializationFuncs, controllerVersion, dispatched, readFunc>>
\* the registry of the test server; issued records the IDs that NewSubnet has
\* returned, and deleted those of them whose subnet a DELETE has removed, each
\* with the number of IDs issued before that first removal
serverVars == <<subnets, nextSubnet, subnetNameToID, issued, deleted>>
vars == <<subnet, includeRanges, op, outcome, ranges, stats,
          deviceDeserializationFuncs, controllerVersion, dispatched, readFunc,
          subnets, nextSubnet, subnetNameToID, issued, deleted>>

----------------------------------------------------------------------------
(* Bounds *)

\* largest number of host bits of a modelled subnet (3: a /29, 6 usable)
MaxHostBits == 3
\* largest number of distinct addresses in InUseIPAddresses of a subnet that
\* is not fully used
MaxInUse == 3
\* largest number of addresses listed twice in InUseIPAddresses
MaxDup == 1
\* width of the modelled machine word
WordBits == 16
\* version numbers Major.Minor range over 0..MaxMajor and 0..MaxMinor
MaxMajor == 2
MaxMinor == 1
\* largest number of registered decoders
MaxRegistered == 2
\* largest subnet ID: NewSubnet is called while nextSubnet <= MaxSubnets and
\* the posted IDs are 1 .. MaxSubnets
MaxSubnets == 2
\* largest number of addresses the storage layer marks in use in a subnet
MaxReserved == 1

\* address width reported by net.IPMask.Size() for an IPv4 mask
IPv4Bits == 32

----------------------------------------------------------------------------
(* Machine arithmetic *)

\* conversion to Go's unsigned word: wraps around
Uint(x) == x % (2 ^ WordBits)

RECURSIVE BitOr(_, _)
\* Go's bitwise | on unsigned values
BitOr(a, b) ==
    IF a = 0 THEN b
    ELSE IF b = 0 THEN a
    ELSE (IF (a % 2 = 1) \/ (b % 2 = 1) THEN 1 ELSE 0) + 2 * BitOr(a \div 2, b \div 2)

\* addressList.Less
Less(a, b) == a < b

RECURSIVE Insert(_, _)
Insert(s, x) ==
    IF s = << >> THEN << x >>
    ELSE IF Less(x, Head(s)) THEN << x >> \o s
    ELSE << Head(s) >> \o Insert(Tail(s), x)

RECURSIVE SortAddresses(_)
\* sort.Sort(addressList(ipAddresses)): ascending by UInt64()
SortAddresses(s) ==
    IF s = << >> THEN << >> ELSE Insert(SortAddresses(Tail(s)), Head(s))

\* net.ParseCIDR: the network address (host bits cleared) and the mask size
ParseCIDR(cidr) ==
    [IP   |-> cidr.ip - (cidr.ip % (2 ^ (IPv4Bits - cidr.ones))),
     ones |-> cidr.ones,
     bits |-> IPv4Bits]

----------------------------------------------------------------------------
(* subnetUnreservedIPRanges *)

\* the AddressRange appended by the code: i.startUint, i.endUint, i.NumAddresses
AddressRange(startUint, endUint) ==
    [startUint    |-> startUint,
     endUint      |-> endUint,
     NumAddresses |-> Uint(1 + endUint - startUint)]

\* startIP after "startIP.SetUInt64(startIP.UInt64() + 1)"
FirstUsable(sn) == Uint(ParseCIDR(sn.CIDR).IP + 1)

\* set := ^((^uint64(0)) << uint(bits-ones))
HostMask(sn) == (2 ^ (ParseCIDR(sn.CIDR).bits - ParseCIDR(sn.CIDR).ones)) - 1

\* lastUsableIP.SetUInt64((startIP.UInt64() | set) - 1)
LastUsable(sn) == Uint(BitOr(FirstUsable(sn), HostMask(sn)) - 1)

\* a loop body that advances the cursor past lastUsableIP as well
UnreservedStepAlwaysAdvance(st, lastUsableIP, end) ==
    IF end = st.startIP
    THEN [st EXCEPT !.startIP = Uint(end + 1)]
    ELSE IF end = lastUsableIP
    THEN st
    ELSE [startIP |-> Uint(end + 1),
          ranges  |-> Append(st.ranges, AddressRange(st.startIP, Uint(end - 1)))]

\* one iteration of "for _, endIP = range ipAddresses"
UnreservedStep(st, lastUsableIP, end) ==
    IF end = st.startIP
    THEN IF end # lastUsableIP
         THEN [st EXCEPT !.startIP = Uint(end + 1)]
         ELSE st
    ELSE IF end = lastUsableIP
    THEN st
    ELSE [startIP |-> Uint(end + 1),
          ranges  |-> Append(st.ranges, AddressRange(st.startIP, Uint(end - 1)))]

RECURSIVE UnreservedLoop(_, _, _)
UnreservedLoop(st, lastUsableIP, ipAddresses) ==
    IF ipAddresses = << >> THEN st
    ELSE UnreservedLoop(UnreservedStep(st, lastUsableIP, Head(ipAddresses)),
                        lastUsableIP, Tail(ipAddresses))

\* the range appended after the loop
UnreservedTail(st, lastUsableIP) ==
    IF st.startIP # lastUsableIP
    THEN Append(st.ranges, AddressRange(st.startIP, lastUsableIP))
    ELSE st.ranges

subnetUnreservedIPRanges(sn) ==
    LET ipAddresses  == SortAddresses(sn.InUseIPAddresses)
        lastUsableIP == LastUsable(sn)
        st0          == [startIP |-> FirstUsable(sn), ranges |-> << >>]
    IN  UnreservedTail(UnreservedLoop(st0, lastUsableIP, ipAddresses), lastUsableIP)

----------------------------------------------------------------------------
(* subnetReservedIPRanges *)

\* one iteration of "for _, thisIP = range ipAddresses"
ReservedStep(st, ip) ==
    IF ip # st.lastIP /\ ip # Uint(st.lastIP + 1)
    THEN [startIP |-> ip,
          lastIP  |-> ip,
          ranges  |-> Append(st.ranges, AddressRange(st.startIP, st.lastIP))]
    ELSE [st EXCEPT !.lastIP = ip]

RECURSIVE ReservedLoop(_, _)
ReservedLoop(st, ipAddresses) ==
    IF ipAddresses = << >> THEN st
    ELSE ReservedLoop(ReservedStep(st, Head(ipAddresses)), Tail(ipAddresses))

\* outcome "panic": index out of range at ipAddresses[0] or ranges[len(ranges)-1]
subnetReservedIPRanges(sn) ==
    LET ipAddresses == SortAddresses(sn.InUseIPAddresses) IN
    IF Len(ipAddresses) = 0
    THEN [outcome |-> "panic", ranges |-> << >>]
    ELSE LET st == ReservedLoop([startIP |-> ipAddresses[1],
                                 lastIP  |-> ipAddresses[1],
                                 ranges  |-> << >>], ipAddresses)
         IN  IF Len(st.ranges) = 0
             THEN [outcome |-> "panic", ranges |-> << >>]
             ELSE IF st.ranges[Len(st.ranges)].endUint # st.lastIP
             THEN [outcome |-> "ok",
                   ranges  |-> Append(st.ranges, AddressRange(st.startIP, st.lastIP))]
             ELSE [outcome |-> "ok", ranges |-> st.ranges]

----------------------------------------------------------------------------
(* subnetStatistics *)

RECURSIVE LargestOf(_, _)
\* "if addressRange.NumAddresses > stats.LargestAvailable" over the ranges
LargestOf(rs, largest) ==
    IF rs = << >> THEN largest
    ELSE LargestOf(Tail(rs),
                   IF Head(rs).NumAddresses > largest
                   THEN Head(rs).NumAddresses ELSE largest)

\* float32(NumUnavailable) / float32(TotalAddresses): IEEE division,
\* kept as the exact fraction, NaN for 0/0 and +Inf for n/0
Float32Div(n, d) ==
    IF d = 0
    THEN IF n = 0 THEN [kind |-> "NaN", num |-> 0, den |-> 0]
                  ELSE [kind |-> "+Inf", num |-> n, den |-> 0]
    ELSE [kind |-> "finite", num |-> n, den |-> d]

subnetStatistics(sn, incl) ==
    LET net            == ParseCIDR(sn.CIDR)
        TotalAddresses == Uint((2 ^ (net.bits - net.ones)) - 2)
        NumUnavailable == Uint(Len(sn.InUseIPAddresses))
        reserved       == subnetUnreservedIPRanges(sn)
    IN  [TotalAddresses   |-> TotalAddresses,
         NumUnavailable   |-> NumUnavailable,
         NumAvailable     |-> Uint(TotalAddresses - NumUnavailable),
         Usage            |-> Float32Div(NumUnavailable, TotalAddresses),
         LargestAvailable |-> LargestOf(reserved, 0),
         Ranges           |-> IF incl THEN reserved ELSE << >>]

\* the zero value of SubnetStats
NoStats ==
    [TotalAddresses |-> 0, NumUnavailable |-> 0, NumAvailable |-> 0,
     Usage |-> [kind |-> "finite", num |-> 0, den |-> 1],
     LargestAvailable |-> 0, Ranges |-> << >>]

----------------------------------------------------------------------------
(* getDeviceDeserializationFunc *)

\* the nil deviceDeserializationFunc
NilFunc == << >>

\* version.Number, reduced to Major.Minor
Versions == [Major : 0 .. MaxMajor, Minor : 0 .. MaxMinor]

\* version.Zero
Zero == [Major |-> 0, Minor |-> 0]

\* version.Number.Compare: -1, 0 or 1
Compare(v, w) ==
    IF v = w THEN 0
    ELSE IF v.Major # w.Major THEN (IF v.Major < w.Major THEN -1 ELSE 1)
    ELSE IF v.Minor < w.Minor THEN -1 ELSE 1

\* a loop body that takes every candidate not above the controller version
DispatchStepNoMax(deserialisationVersion, v, ctrl) ==
    IF Compare(v, ctrl) <= 0
    THEN v
    ELSE deserialisationVersion

\* one iteration of "for v := range deviceDeserializationFuncs"
DispatchStep(deserialisationVersion, v, ctrl) ==
    IF Compare(v, deserialisationVersion) > 0 /\ Compare(v, ctrl) <= 0
    THEN v
    ELSE deserialisationVersion

RECURSIVE DispatchLoop(_, _, _)
DispatchLoop(deserialisationVersion, order, ctrl) ==
    IF order = << >> THEN deserialisationVersion
    ELSE DispatchLoop(DispatchStep(deserialisationVersion, Head(order), ctrl),
                      Tail(order), ctrl)

\* order: the order in which the range statement visits the map's keys
getDeviceDeserializationFunc(funcs, ctrl, order) ==
    LET deserialisationVersion == DispatchLoop(Zero, order, ctrl) IN
    IF deserialisationVersion = Zero
    THEN [func |-> NilFunc, err |-> "UnsupportedVersion"]
    ELSE [func |-> funcs[deserialisationVersion], err |-> "nil"]

\* the decoder registered under version v
DecoderOf(v) == << "device", v.Major, v.Minor >>

\* the orders in which a map with key set S can be iterated
IterationOrders(S) ==
    { o \in [1 .. Cardinality(S) -> S] : \A i, j \in DOMAIN o : i # j => o[i] # o[j] }

----------------------------------------------------------------------------
(* Inputs *)

RECURSIVE Ascending(_)
Ascending(S) ==
    IF S = {} THEN << >>
    ELSE LET m == CHOOSE x \in S : \A y \in S : x <= y
         IN  << m >> \o Ascending(S \ {m})

RECURSIVE Descending(_)
Descending(S) ==
    IF S = {} THEN << >>
    ELSE LET m == CHOOSE x \in S : \A y \in S : x >= y
         IN  << m >> \o Descending(S \ {m})

\* the network address of the modelled subnets, aligned for every prefix
NetworkIP == 2 ^ (MaxHostBits + 1)

PrefixLengths == (IPv4Bits - MaxHostBits) .. IPv4Bits

CIDRs == [ip : {NetworkIP}, ones : PrefixLengths]

\* the usable host addresses of a CIDR block: none for a /31 and a /32
UsableAddresses(cidr) ==
    IF cidr.ones > IPv4Bits - 2 THEN {}
    ELSE (cidr.ip + 1) .. (cidr.ip + (2 ^ (IPv4Bits - cidr.ones)) - 2)

\* the in-use sets: up to MaxInUse usable addresses, or all of them
InUseSets(cidr) ==
    { u \in SUBSET UsableAddresses(cidr) : Cardinality(u) <= MaxInUse }
        \cup { UsableAddresses(cidr) }

\* unordered in-use lists: distinct addresses S, of which D are listed twice
InUseLists(cidr) ==
    UNION { { Descending(S) \o Ascending(D) :
              D \in { d \in SUBSET S : Cardinality(d) <= MaxDup } } :
            S \in InUseSets(cidr) }

Subnets ==
    UNION { [CIDR : {c}, InUseIPAddresses : InUseLists(c)] : c \in CIDRs }

Registries ==
    { S \in SUBSET Versions : Cardinality(S) <= MaxRegistered }

\* the registry of the package: decoders keyed by version
RegistryOf(S) == [v \in S |-> DecoderOf(v)]

\* the set of addresses of a list
Range(s) == { s[k] : k \in DOMAIN s }

----------------------------------------------------------------------------
(* The subnet registry of the test server *)

\* the empty map
EmptyMap == [x \in {} |-> x]

\* m with key k set to v, as the Go assignment m[k] = v
MapSet(m, k, v) == [x \in (DOMAIN m) \cup {k} |-> IF x = k THEN v ELSE m[x]]

\* delete(m, k)
MapDelete(m, k) == [x \in (DOMAIN m) \ {k} |-> m[x]]

\* the names a subnet is posted under
SubnetNames == {"alpha", "beta"}

\* the CIDR block a subnet is posted with: the largest block
PostedCIDRs == { c \in CIDRs : c.ones = IPv4Bits - MaxHostBits }

\* the IDs a PUT is posted with: those NewSubnet can issue, issued or not yet
PostedIDs == 1 .. MaxSubnets

\* the decoded CreateSubnet bodies of POST and PUT
CreateSubnets == [Name : SubnetNames, CIDR : PostedCIDRs, ID : PostedIDs]

\* subnetFromCreateSubnet: the posted fields, nothing else set
subnetFromCreateSubnet(postedSubnet) ==
    [Name             |-> postedSubnet.Name,
     CIDR             |-> postedSubnet.CIDR,
     ID               |-> postedSubnet.ID,
     InUseIPAddresses |-> << >>]

\* a NewSubnet that does not advance the counter
NewSubnetKeepsCounter(srv, postedSubnet) ==
    LET newSubnet == [subnetFromCreateSubnet(postedSubnet) EXCEPT !.ID = srv.nextSubnet]
    IN  [subnets        |-> MapSet(srv.subnets, srv.nextSubnet, newSubnet),
         subnetNameToID |-> MapSet(srv.subnetNameToID, newSubnet.Name, newSubnet.ID),
         nextSubnet     |-> srv.nextSubnet,
         newSubnet      |-> newSubnet]

\* TestServer.NewSubnet: the server after the call and the subnet returned
NewSubnet(srv, postedSubnet) ==
    LET newSubnet == [subnetFromCreateSubnet(postedSubnet) EXCEPT !.ID = srv.nextSubnet]
    IN  [subnets        |-> MapSet(srv.subnets, srv.nextSubnet, newSubnet),
         subnetNameToID |-> MapSet(srv.subnetNameToID, newSubnet.Name, newSubnet.ID),
         nextSubnet     |-> Uint(srv.nextSubnet + 1),
         newSubnet      |-> newSubnet]

\* an UpdateSubnet that carries the stored in-use addresses over
UpdateSubnetKeepsInUse(srv, postedSubnet) ==
    LET posted        == subnetFromCreateSubnet(postedSubnet)
        updatedSubnet == IF posted.ID \in DOMAIN srv.subnets
                         THEN [posted EXCEPT !.InUseIPAddresses =
                                  srv.subnets[posted.ID].InUseIPAddresses]
                         ELSE posted
    IN  [subnets        |-> MapSet(srv.subnets, updatedSubnet.ID, updatedSubnet),
         subnetNameToID |-> srv.subnetNameToID,
         nextSubnet     |-> srv.nextSubnet]

\* TestServer.UpdateSubnet: the server after the call
UpdateSubnet(srv, postedSubnet) ==
    LET updatedSubnet == subnetFromCreateSubnet(postedSubnet)
    IN  [subnets        |-> MapSet(srv.subnets, updatedSubnet.ID, updatedSubnet),
         subnetNameToID |-> srv.subnetNameToID,
         nextSubnet     |-> srv.nextSubnet]

\* the server as a record
Server == [subnets |-> subnets, nextSubnet |-> nextSubnet,
           subnetNameToID |-> subnetNameToID]

\* the registry is empty and the first ID is 1, the first ID the listing of
\* the handler visits
InitServer ==
    /\ subnets = EmptyMap
    /\ nextSubnet = 1
    /\ subnetNameToID = EmptyMap
    /\ issued = << >>
    /\ deleted = EmptyMap

----------------------------------------------------------------------------
(* State machine of the accountant: the three GET operations on one subnet *)

NoDispatch == [func |-> NilFunc, err |-> "nil"]

InitAccount ==
    /\ subnet \in Subnets
    /\ includeRanges = FALSE
    /\ op = "none"
    /\ outcome = "none"
    /\ ranges = << >>
    /\ stats = NoStats
    /\ deviceDeserializationFuncs = RegistryOf({})
    /\ controllerVersion = Zero
    /\ dispatched = FALSE
    /\ readFunc = NoDispatch
    /\ InitServer

\* GET op=unreserved_ip_ranges
UnreservedIPRanges ==
    /\ op' = "unreserved_ip_ranges"
    /\ outcome' = "ok"
    /\ ranges' = subnetUnreservedIPRanges(subnet)
    /\ stats' = NoStats
    /\ includeRanges' = FALSE
    /\ UNCHANGED subnet
    /\ UNCHANGED dispatchVars
    /\ UNCHANGED serverVars

\* GET op=reserved_ip_ranges
ReservedIPRanges ==
    /\ op' = "reserved_ip_ranges"
    /\ LET r == subnetReservedIPRanges(subnet)
       IN  outcome' = r.outcome /\ ranges' = r.ranges
    /\ stats' = NoStats
    /\ includeRanges' = FALSE
    /\ UNCHANGED subnet
    /\ UNCHANGED dispatchVars
    /\ UNCHANGED serverVars

\* GET op=statistics, with or without include_ranges
Statistics ==
    /\ \E incl \in BOOLEAN :
          /\ includeRanges' = incl
          /\ stats' = subnetStatistics(subnet, incl)
    /\ op' = "statistics"
    /\ outcome' = "ok"
    /\ ranges' = << >>
    /\ UNCHANGED subnet
    /\ UNCHANGED dispatchVars
    /\ UNCHANGED serverVars

Next ==
    \/ UnreservedIPRanges
    \/ ReservedIPRanges
    \/ Statistics

Spec == InitAccount /\ [][Next]_vars

----------------------------------------------------------------------------
(* State machine of the version dispatch *)

InitDispatch ==
    /\ subnet = [CIDR |-> [ip |-> NetworkIP, ones |-> IPv4Bits], InUseIPAddresses |-> << >>]
    /\ includeRanges = FALSE
    /\ op = "none"
    /\ outcome = "none"
    /\ ranges = << >>
    /\ stats = NoStats
    /\ \E S \in Registries : deviceDeserializationFuncs = RegistryOf(S)
    /\ controllerVersion \in Versions
    /\ dispatched = FALSE
    /\ readFunc = NoDispatch
    /\ InitServer

\* a call of getDeviceDeserializationFunc(controllerVersion), as readDevice makes it
GetDeviceDeserializationFunc ==
    /\ \E order \in IterationOrders(DOMAIN deviceDeserializationFuncs) :
          readFunc' = getDeviceDeserializationFunc(deviceDeserializationFuncs,
                                                   controllerVersion, order)
    /\ dispatched' = TRUE
    /\ UNCHANGED <<deviceDeserializationFuncs, controllerVersion>>
    /\ UNCHANGED accountVars
    /\ UNCHANGED serverVars

NextDispatch == GetDeviceDeserializationFunc

SpecDispatch == InitDispatch /\ [][NextDispatch]_vars

----------------------------------------------------------------------------
(* State machine of the subnet registry: POST, PUT and DELETE requests *)

\* NameOrIDToID for a number in the URL: an error outside minID .. maxID
IDToID(id, minID, maxID) ==
    IF id < minID \/ id > maxID
    THEN [err |-> TRUE, ID |-> 0]
    ELSE [err |-> FALSE, ID |-> id]

\* NameOrIDToID for a name in the URL: the ID the name is registered under
NameToID(name, nameToID, minID, maxID) ==
    IF name \in DOMAIN nameToID
    THEN IDToID(nameToID[name], minID, maxID)
    ELSE [err |-> TRUE, ID |-> 0]

\* the storage layer marks the next usable address of a registered subnet
\* in use
ReserveIPAddress ==
    /\ \E id \in DOMAIN subnets :
          LET a == subnets[id].CIDR.ip + 1 + Len(subnets[id].InUseIPAddresses) IN
          /\ Len(subnets[id].InUseIPAddresses) < MaxReserved
          /\ a \in UsableAddresses(subnets[id].CIDR)
          /\ subnets' = [subnets EXCEPT ![id].InUseIPAddresses = Append(@, a)]
    /\ UNCHANGED <<nextSubnet, subnetNameToID, issued, deleted>>
    /\ UNCHANGED accountVars
    /\ UNCHANGED dispatchVars

\* POST: server.NewSubnet(r.Body)
PostSubnet ==
    /\ nextSubnet <= MaxSubnets
    /\ \E postedSubnet \in CreateSubnets :
          LET r == NewSubnet(Server, postedSubnet) IN
          /\ subnets' = r.subnets
          /\ nextSubnet' = r.nextSubnet
          /\ subnetNameToID' = r.subnetNameToID
          /\ issued' = Append(issued, r.newSubnet.ID)
    /\ UNCHANGED deleted
    /\ UNCHANGED accountVars
    /\ UNCHANGED dispatchVars

\* PUT with the body postedSubnet: server.UpdateSubnet(r.Body)
PutSubnetWith(postedSubnet) ==
    /\ LET r == UpdateSubnet(Server, postedSubnet) IN
          /\ subnets' = r.subnets
          /\ nextSubnet' = r.nextSubnet
          /\ subnetNameToID' = r.subnetNameToID
    /\ UNCHANGED <<issued, deleted>>
    /\ UNCHANGED accountVars
    /\ UNCHANGED dispatchVars

PutSubnet == \E postedSubnet \in CreateSubnets : PutSubnetWith(postedSubnet)

\* delete(server.subnets, ID)
DeleteID(ID) ==
    /\ subnets' = MapDelete(subnets, ID)
    /\ deleted' = IF ID \in DOMAIN subnets /\ ID \in Range(issued) /\ ID \notin DOMAIN deleted
                  THEN MapSet(deleted, ID, Len(issued))
                  ELSE deleted
    /\ UNCHANGED <<nextSubnet, subnetNameToID, issued>>
    /\ UNCHANGED accountVars
    /\ UNCHANGED dispatchVars

\* DELETE with a number, with a name, or with no subnet in the URL (ID is 0
\* then); a URL that does not resolve is answered NotFound and deletes nothing
DeleteSubnet ==
    \/ \E n \in 0 .. MaxSubnets + 1 :
          LET r == IDToID(n, 1, Cardinality(DOMAIN subnets)) IN
          ~ r.err /\ DeleteID(r.ID)
    \/ \E name \in SubnetNames :
          LET r == NameToID(name, subnetNameToID, 1, Cardinality(DOMAIN subnets)) IN
          ~ r.err /\ DeleteID(r.ID)
    \/ DeleteID(0)

NextServer ==
    \/ PostSubnet
    \/ PutSubnet
    \/ DeleteSubnet
    \/ ReserveIPAddress

\* the accountant and the dispatch are idle in this specification
InitRegistry ==
    /\ subnet = [CIDR |-> [ip |-> NetworkIP, ones |-> IPv4Bits], InUseIPAddresses |-> << >>]
    /\ includeRanges = FALSE
    /\ op = "none"
    /\ outcome = "none"
    /\ ranges = << >>
    /\ stats = NoStats
    /\ deviceDeserializationFuncs = RegistryOf({})
    /\ controllerVersion = Zero
    /\ dispatched = FALSE
    /\ readFunc = NoDispatch
    /\ InitServer

SpecServer == InitRegistry /\ [][NextServer]_vars

----------------------------------------------------------------------------
(* Properties *)

\* the distinct in-use addresses, the prefix length and the usable span of
\* the subnet under request
InUse == Range(subnet.InUseIPAddresses)
Ones == subnet.CIDR.ones
Usable == UsableAddresses(subnet.CIDR)
Distinct == Cardinality(InUse) = Len(subnet.InUseIPAddresses)
HasHosts == Ones <= IPv4Bits - 2

Covers(r, a) == r.startUint <= a /\ a <= r.endUint

RECURSIVE SumNumAddresses(_)
SumNumAddresses(rs) ==
    IF rs = << >> THEN 0 ELSE Head(rs).NumAddresses + SumNumAddresses(Tail(rs))

\* the subnet with each in-use address listed once
Deduplicated(sn) == [sn EXCEPT !.InUseIPAddresses = Ascending(Range(@))]

\* C1: for a prefix length <= 30 and distinct in-use addresses inside the
\* usable span, no unreserved range contains an in-use address; an in-use
\* lastUsable above the cursor closes the free run at lastUsable - 1.
C1_NoInUseAddressInUnreserved ==
    (op = "unreserved_ip_ranges" /\ HasHosts /\ Distinct)
        => \A k \in DOMAIN ranges : \A a \in InUse : ~ Covers(ranges[k], a)

\* C2: for a prefix length <= 30 and distinct in-use addresses, every usable
\* address that is not in use lies in exactly one unreserved range, also when
\* the last free run is the single address lastUsable.
C2_EveryFreeAddressInOneRange ==
    (op = "unreserved_ip_ranges" /\ HasHosts /\ Distinct)
        => \A a \in Usable \ InUse :
              Cardinality({ k \in DOMAIN ranges : Covers(ranges[k], a) }) = 1

\* C3: for a non-empty in-use list subnetReservedIPRanges completes and its
\* ranges are ascending, disjoint, maximal runs with NumAddresses =
\* end - start + 1 whose union is the set of in-use addresses.
C3_ReservedRangesAreTheRuns ==
    (op = "reserved_ip_ranges" /\ InUse # {})
        => /\ outcome = "ok"
           /\ \A k \in DOMAIN ranges :
                 /\ ranges[k].startUint <= ranges[k].endUint
                 /\ ranges[k].NumAddresses = ranges[k].endUint - ranges[k].startUint + 1
           /\ \A k \in DOMAIN ranges :
                 k < Len(ranges) => ranges[k].endUint + 1 < ranges[k + 1].startUint
           /\ UNION { ranges[k].startUint .. ranges[k].endUint : k \in DOMAIN ranges } = InUse

\* C4: on an empty in-use list subnetReservedIPRanges fails with an explicit
\* precondition error: it neither panics nor returns a range list.
C4_EmptyReservedIsAnError ==
    (op = "reserved_ip_ranges" /\ InUse = {}) => outcome = "error"

\* C5: the sizes of the unreserved ranges plus NumUnavailable add up to
\* TotalAddresses.
C5_RangesAndStatisticsAgree ==
    op = "statistics"
        => SumNumAddresses(subnetUnreservedIPRanges(subnet)) + stats.NumUnavailable
              = stats.TotalAddresses

\* C6: LargestAvailable never exceeds NumAvailable.
C6_LargestWithinAvailable ==
    op = "statistics" => stats.LargestAvailable <= stats.NumAvailable

\* C7: each of the three operations gives, on an in-use list with repeated
\* addresses, the result it gives on the list without the repetitions.
C7_DuplicatesDoNotMatter ==
    /\ op = "unreserved_ip_ranges"
          => ranges = subnetUnreservedIPRanges(Deduplicated(subnet))
    /\ op = "reserved_ip_ranges"
          => /\ outcome = subnetReservedIPRanges(Deduplicated(subnet)).outcome
             /\ ranges = subnetReservedIPRanges(Deduplicated(subnet)).ranges
    /\ op = "statistics"
          => stats = subnetStatistics(Deduplicated(subnet), includeRanges)

\* C8: for a prefix length of 31 or 32 the unreserved list is empty and the
\* statistics are all zero.
C8_NoHostsGivesZeroes ==
    ~ HasHosts
        => /\ op = "unreserved_ip_ranges" => ranges = << >>
           /\ op = "statistics"
                 => /\ stats.TotalAddresses = 0
                    /\ stats.NumAvailable = 0
                    /\ stats.LargestAvailable = 0
                    /\ stats.Usage.kind = "finite" /\ stats.Usage.num = 0

\* C9: for a prefix length <= 30, an empty in-use list gives the single range
\* [firstUsable, lastUsable] holding every usable address, and a list of every
\* usable address (each once) gives no range.
C9_EmptyAndFullUsage ==
    (op = "unreserved_ip_ranges" /\ HasHosts /\ Distinct)
        => /\ InUse = {}
                 => ranges = << [startUint    |-> subnet.CIDR.ip + 1,
                                 endUint      |-> subnet.CIDR.ip + (2 ^ (IPv4Bits - Ones)) - 2,
                                 NumAddresses |-> Cardinality(Usable)] >>
           /\ InUse = Usable => ranges = << >>

\* a fully used subnet has been asked for its unreserved ranges
C9_Witness ==
    /\ op = "unreserved_ip_ranges"
    /\ HasHosts /\ Distinct
    /\ InUse = Usable
    /\ ranges = << >>

\* the registered versions that do not exceed the controller version
Candidates ==
    { v \in DOMAIN deviceDeserializationFuncs : Compare(v, controllerVersion) <= 0 }

\* those of them that a decoder can be looked up under
PositiveCandidates == { v \in Candidates : Compare(v, Zero) > 0 }

Greatest(S) == CHOOSE v \in S : \A w \in S : Compare(w, v) <= 0

\* the outcome that selects the greatest version of S, or fails when S is empty
SelectsGreatestOf(S) ==
    IF S = {}
    THEN readFunc = [func |-> NilFunc, err |-> "UnsupportedVersion"]
    ELSE readFunc = [func |-> deviceDeserializationFuncs[Greatest(S)], err |-> "nil"]

LastIssued(ids) == ids[Len(ids)]

\* C11: across POST, PUT and DELETE requests nextSubnet never decreases, every
\* NewSubnet returns an ID greater than all the IDs NewSubnet returned before,
\* and NewSubnet never returns again the ID of a subnet it created and a
\* DELETE removed.
C11_IDsNeverReused ==
    /\ [](\A i, j \in DOMAIN issued : i < j => issued[i] < issued[j])
    /\ [][nextSubnet' >= nextSubnet]_vars
    /\ [][issued' # issued
            => LastIssued(issued') \notin DOMAIN deleted]_vars

\* a subnet that NewSubnet created has been deleted, and NewSubnet has
\* returned another ID after that
C11_Witness ==
    \E d \in DOMAIN deleted :
        /\ d \in Range(issued)
        /\ d \notin DOMAIN subnets
        /\ deleted[d] < Len(issued)
        /\ LastIssued(issued) \in DOMAIN subnets

\* what UpdateSubnet is to leave behind for the posted body p
UpdateFrame(p) ==
    /\ DOMAIN subnets' = (DOMAIN subnets) \cup {p.ID}
    /\ subnets'[p.ID] = [Name |-> p.Name, CIDR |-> p.CIDR, ID |-> p.ID,
                         InUseIPAddresses |-> << >>]
    /\ \A id \in (DOMAIN subnets) \ {p.ID} : subnets'[id] = subnets[id]
    /\ nextSubnet' = nextSubnet
    /\ subnetNameToID' = subnetNameToID

\* C12: UpdateSubnet puts at the posted ID a record of the posted fields with
\* no in-use address, and leaves every other entry, nextSubnet and the
\* name-to-ID lookup as they were.
C12_UpdateReplacesOnlyThePostedEntry ==
    [][\A p \in CreateSubnets : PutSubnetWith(p) => UpdateFrame(p)]_vars

\* a subnet has been renamed by an update: the lookup still leads to it under
\* its old name only, it has no in-use address, and another subnet has kept its own
C12_Witness ==
    \E name \in DOMAIN subnetNameToID :
        LET id == subnetNameToID[name] IN
        /\ id \in DOMAIN subnets
        /\ subnets[id].Name # name
        /\ subnets[id].Name \notin DOMAIN subnetNameToID
        /\ subnets[id].InUseIPAddresses = << >>
        /\ \E other \in (DOMAIN subnets) \ {id} :
              subnets[other].InUseIPAddresses # << >>

====
